---------------------------- MODULE Spec2Model ----------------------------
(***************************************************************************)
(* koa-persist-query: a Koa middleware that resolves a persisted-query id  *)
(* to its query text, delegates execution to the next middleware and       *)
(* caches the JSON response under a fingerprint of (id, variables).        *)
(*                                                                         *)
(* The model follows the final variant of the middleware                   *)
(* (src/unnamed/part_001) and the cache wrapper (src/cache.ts,             *)
(* src/unnamed/part_000) around the lru-cache package.                     *)
(***************************************************************************)
EXTENDS Naturals, Sequences, FiniteSets

(***************************************************************************)
(* JavaScript values.  Every value is a record of one shape, so that any   *)
(* two values can be compared:                                             *)
(*   t   the typeof tag ("undefined", "string", "number", "object")        *)
(*   s   the text of a string / the decimal text of a number; for an       *)
(*       object, "cyclic" marks an object that refers to itself            *)
(*   kv  the own properties of an object, in insertion order               *)
(***************************************************************************)
Undefined == [t |-> "undefined", s |-> "", kv |-> <<>>]
Str(text) == [t |-> "string", s |-> text, kv |-> <<>>]
Num(text) == [t |-> "number", s |-> text, kv |-> <<>>]
Obj(props) == [t |-> "object", s |-> "", kv |-> props]
Prop(k, v) == [k |-> k, val |-> v]
CyclicObj == [t |-> "object", s |-> "cyclic", kv |-> <<>>]

\* typeof v
TypeOf(v) == v.t

\* JavaScript truthiness: undefined, "" and 0 are falsy, objects are truthy.
Truthy(v) ==
  CASE v.t = "undefined" -> FALSE
    [] v.t = "string" -> v.s # ""
    [] v.t = "number" -> v.s # "0"
    [] OTHER -> TRUE

\* lodash isObject: an object (or function) that is not null.
isObject(v) == v.t = "object"

\* Object.keys(o).length: the own properties of an object, the character
\* indices of a string, nothing for a number.
KeyCount(o) == IF o.t = "string" THEN Len(o.s) ELSE Len(o.kv)

HasProp(o, k) == \E i \in 1..Len(o.kv) : o.kv[i].k = k

\* o[k]: the property's value, undefined when o has no such property.
GetProp(o, k) ==
  IF HasProp(o, k)
    THEN o.kv[CHOOSE i \in 1..Len(o.kv) : o.kv[i].k = k].val
    ELSE Undefined

\* o[k] = v: replaces the property in place, or appends it.
SetProp(o, k, v) ==
  IF HasProp(o, k)
    THEN [o EXCEPT !.kv = [i \in 1..Len(o.kv) |->
                             IF o.kv[i].k = k THEN Prop(k, v) ELSE o.kv[i]]]
    ELSE [o EXCEPT !.kv = Append(o.kv, Prop(k, v))]

\* String(v), as used by the + operator on a string operand.
StringOf(v) ==
  CASE v.t = "undefined" -> "undefined"
    [] v.t = "object" -> "[object Object]"
    [] OTHER -> v.s

(***************************************************************************)
(* JSON.stringify and JSON.parse.                                          *)
(***************************************************************************)
RECURSIVE JsonMembers(_, _, _)
RECURSIVE JsonText(_)

\* The text of a value that JSON.stringify can serialize.
JsonText(v) ==
  CASE v.t = "string" -> "\"" \o v.s \o "\""
    [] v.t = "number" -> v.s
    [] v.t = "object" -> "{" \o JsonMembers(v.kv, 1, TRUE) \o "}"
    [] OTHER -> ""

\* The members of an object from index i on; undefined properties are
\* skipped, as JSON.stringify skips them.
JsonMembers(props, i, first) ==
  IF i > Len(props) THEN ""
  ELSE IF props[i].val.t = "undefined" THEN JsonMembers(props, i + 1, first)
  ELSE (IF first THEN "" ELSE ",")
         \o "\"" \o props[i].k \o "\":" \o JsonText(props[i].val)
         \o JsonMembers(props, i + 1, FALSE)

RECURSIVE IsCyclic(_)
IsCyclic(v) ==
  /\ v.t = "object"
  /\ \/ v.s = "cyclic"
     \/ \E i \in 1..Len(v.kv) : IsCyclic(v.kv[i].val)

\* JSON.stringify(v): [ok, text]; it throws (ok = FALSE) on a cyclic object.
JsonStringify(v) ==
  IF IsCyclic(v) THEN [ok |-> FALSE, text |-> ""]
  ELSE [ok |-> TRUE, text |-> JsonText(v)]

\* The values whose JSON text the model's JSON.parse recognises.
JsonValues ==
  { Obj(<<>>),
    Obj(<<Prop("x", Num("1"))>>),
    Obj(<<Prop("x", Num("2"))>>),
    Obj(<<Prop("version", Num("1"))>>),
    Num("7") }

\* JSON.parse(text): [ok, val]; it throws (ok = FALSE) on text that is not
\* the JSON text of a value.
JsonParse(text) ==
  IF \E v \in JsonValues : JsonText(v) = text
    THEN [ok |-> TRUE, val |-> CHOOSE v \in JsonValues : JsonText(v) = text]
    ELSE [ok |-> FALSE, val |-> Undefined]

(***************************************************************************)
(* Errors.  A thrown value is a record; NoError stands for "nothing was    *)
(* thrown".                                                                *)
(***************************************************************************)
NoHeaders == <<>>
NoError ==
  [name |-> "", statusCode |-> 0, message |-> "", isGraphQLError |-> FALSE,
   headers |-> NoHeaders]

\* new HttpQueryError(statusCode, message, isGraphQLError, headers)
HttpQueryError(statusCode, message, isGraphQLError, headers) ==
  [name |-> "HttpQueryError", statusCode |-> statusCode, message |-> message,
   isGraphQLError |-> isGraphQLError, headers |-> headers]

\* The TypeError the runtime throws on `undefined.query = ...`, with the
\* message of Node 16 and later.
TypeError ==
  [name |-> "TypeError", statusCode |-> 0,
   message |-> "Cannot set properties of undefined (setting 'query')",
   isGraphQLError |-> FALSE, headers |-> NoHeaders]

\* What the next middleware throws when it fails.
ExecutorError ==
  [name |-> "Error", statusCode |-> 0, message |-> "executor failed",
   isGraphQLError |-> FALSE, headers |-> NoHeaders]

\* A function's outcome: a returned value, or a thrown error.
Return(v) == [ok |-> TRUE, val |-> v, err |-> NoError]
Throw(e) == [ok |-> FALSE, val |-> Undefined, err |-> e]

(***************************************************************************)
(* Request normalizer.                                                     *)
(***************************************************************************)
\* parseQueryAndMethod: the payload is the parsed body of a POST (with the
\* koa-multer fallback to ctx.req.body) and the query-string mapping
\* otherwise.
parseQueryAndMethod(ctx) ==
  [query |-> IF ctx.method = "POST"
               THEN (IF Truthy(ctx.body) THEN ctx.body ELSE ctx.reqBody)
               ELSE ctx.query,
   method |-> ctx.method]

\* A validation with the two statuses exchanged.
validateRequestPayloadSwapped(request) ==
  CASE request.method = "POST" ->
         IF ~Truthy(request.query) \/ KeyCount(request.query) = 0
           THEN Throw(HttpQueryError(400,
                  "POST body missing. Did you forget use body-parser middleware?",
                  FALSE, NoHeaders))
           ELSE Return(request.query)
    [] request.method = "GET" ->
         IF ~Truthy(request.query) \/ KeyCount(request.query) = 0
           THEN Throw(HttpQueryError(500, "GET query missing.", FALSE, NoHeaders))
           ELSE Return(request.query)
    [] OTHER ->
         Throw(HttpQueryError(405,
                 "Apollo Server supports only GET/POST requests.", FALSE,
                 <<Prop("Allow", "GET, POST")>>))

\* validateRequestPayload
validateRequestPayload(request) ==
  CASE request.method = "POST" ->
         IF ~Truthy(request.query) \/ KeyCount(request.query) = 0
           THEN Throw(HttpQueryError(500,
                  "POST body missing. Did you forget use body-parser middleware?",
                  FALSE, NoHeaders))
           ELSE Return(request.query)
    [] request.method = "GET" ->
         IF ~Truthy(request.query) \/ KeyCount(request.query) = 0
           THEN Throw(HttpQueryError(400, "GET query missing.", FALSE, NoHeaders))
           ELSE Return(request.query)
    [] OTHER ->
         Throw(HttpQueryError(405,
                 "Apollo Server supports only GET/POST requests.", FALSE,
                 <<Prop("Allow", "GET, POST")>>))

\* The message for a query sent as a parsed graphql-js document: the source
\* text up to its first backquote (a TLA+ string cannot hold one); no other
\* message of the program starts this way.
DocumentMessage ==
  "GraphQL queries must be strings. It looks like you're sending the "
    \o "internal graphql-js representation of a parsed query in your "
    \o "request instead of a request in the GraphQL query language. You "
    \o "can convert an AST to a string using the "

\* The GraphQLRequest that parseGraphQLRequestFromPayload returns.
GraphQLRequest(query, operationName, variables, extensions, persistHash) ==
  [t |-> "object", s |-> "",
   kv |-> <<Prop("query", query), Prop("operationName", operationName),
            Prop("variables", variables), Prop("extensions", extensions),
            Prop("persistHash", persistHash)>>]

\* typeof v === "string" ? JSON.parse(v) : v
ParseIfString(v) ==
  IF TypeOf(v) = "string" THEN JsonParse(v.s) ELSE [ok |-> TRUE, val |-> v]

\* The checks of parseGraphQLRequestFromPayload, in the order of the code,
\* on the payload's query and on its parsed extensions and variables.
CheckPayload(requestParams, queryString, extensions, variables) ==
  IF ~extensions.ok
    THEN Throw(HttpQueryError(400, "Extensions are invalid JSON.", FALSE, NoHeaders))
  ELSE IF Truthy(queryString) /\ TypeOf(queryString) # "string"
    THEN IF GetProp(queryString, "kind") = Str("Document")
           THEN Throw(HttpQueryError(400, DocumentMessage, FALSE, NoHeaders))
           ELSE Throw(HttpQueryError(400, "GraphQL queries must be strings.",
                                     FALSE, NoHeaders))
  ELSE IF ~variables.ok
    THEN Throw(HttpQueryError(400, "Variables are invalid JSON.", FALSE, NoHeaders))
  ELSE Return(GraphQLRequest(queryString,
                             GetProp(requestParams, "operationName"),
                             variables.val, extensions.val,
                             GetProp(requestParams, "id")))

\* parseGraphQLRequestFromPayload
parseGraphQLRequestFromPayload(requestParams) ==
  CheckPayload(requestParams,
               GetProp(requestParams, "query"),
               ParseIfString(GetProp(requestParams, "extensions")),
               ParseIfString(GetProp(requestParams, "variables")))

\* The last step of the composition: a payload that failed validation
\* never reaches parseGraphQLRequestFromPayload.
ParseValidated(payload) ==
  IF payload.ok THEN parseGraphQLRequestFromPayload(payload.val) ELSE payload

\* parseGraphQLRequest: the composition of the three steps above.
parseGraphQLRequest(ctx) ==
  ParseValidated(validateRequestPayload(parseQueryAndMethod(ctx)))

(***************************************************************************)
(* Fingerprint generator.                                                  *)
(***************************************************************************)
\* createHash("sha256").update(text).digest("hex"): the digest is taken to
\* be collision-free, so it is written as the text it was computed from.
sha256(text) == "sha256(" \o text \o ")"

\* The digest of the id and the serialized variables.
HashWith(queryHashId, variableString) ==
  IF ~variableString.ok
    THEN Throw(HttpQueryError(400,
                 "[persist-query-middleware] Variables are invalid JSON",
                 FALSE, NoHeaders))
    ELSE Return(Str(sha256(StringOf(queryHashId) \o variableString.text)))

\* A fingerprint that swallows the serialization failure and hashes the id
\* alone.
generateRequestHashUnchecked(queryHashId, queryVariables) ==
  HashWith(queryHashId,
           IF ~Truthy(queryVariables) \/ ~isObject(queryVariables)
                \/ ~JsonStringify(queryVariables).ok
             THEN [ok |-> TRUE, text |-> ""]
             ELSE JsonStringify(queryVariables))

\* A fingerprint of the id alone.
generateRequestHashIdOnly(queryHashId, queryVariables) ==
  HashWith(queryHashId, [ok |-> TRUE, text |-> ""])

\* A fingerprint that serializes whatever variables it is given, objects
\* or not.
generateRequestHashAnyValue(queryHashId, queryVariables) ==
  HashWith(queryHashId,
           IF ~Truthy(queryVariables)
             THEN [ok |-> TRUE, text |-> ""]
             ELSE JsonStringify(queryVariables))

\* generateRequestHash
generateRequestHash(queryHashId, queryVariables) ==
  HashWith(queryHashId,
           IF ~Truthy(queryVariables) \/ ~isObject(queryVariables)
             THEN [ok |-> TRUE, text |-> ""]
             ELSE JsonStringify(queryVariables))

(***************************************************************************)
(* Bounded response cache: the LRUCache wrapper around the lru-cache        *)
(* package.  The cache is the list of its entries, most recently used      *)
(* first; an entry records the time of its insertion.                      *)
(***************************************************************************)
\* Cache capacity (the `max` option; 100 in the program), scaled down.
CacheMax == 2
\* Time to live (the `maxAge` option; one hour in the program), in ticks.
CacheMaxAge == 1

Entry(key, value, now) == [key |-> key, value |-> value, now |-> now]

IndexOf(entries, key) ==
  IF \E i \in 1..Len(entries) : entries[i].key = key
    THEN CHOOSE i \in 1..Len(entries) : entries[i].key = key
    ELSE 0

Without(entries, i) ==
  [j \in 1..(Len(entries) - 1) |-> IF j < i THEN entries[j] ELSE entries[j + 1]]

\* Entries that never expire.
isStaleNever(hit, now) == FALSE

\* lru-cache isStale: the entry is older than maxAge.
isStale(hit, now) == now > hit.now + CacheMaxAge

\* A trim that drops entries from the most recently used end.
trimNewest(entries) ==
  IF Len(entries) > CacheMax
    THEN SubSeq(entries, Len(entries) - CacheMax + 1, Len(entries))
    ELSE entries

\* lru-cache trim: drop entries from the least recently used end while the
\* cache is over capacity.
trim(entries) ==
  IF Len(entries) > CacheMax THEN SubSeq(entries, 1, CacheMax) ELSE entries

\* LRUCache.has(key): a live entry is present; the cache is not changed.
LRUCacheHas(entries, key, now) ==
  /\ IndexOf(entries, key) # 0
  /\ ~isStale(entries[IndexOf(entries, key)], now)

\* LRUCache.get(key): [cache, value].  A stale entry is deleted and reported
\* absent; a live one becomes the most recently used.
LRUCacheGet(entries, key, now) ==
  LET i == IndexOf(entries, key) IN
  IF i = 0 THEN [cache |-> entries, value |-> Undefined]
  ELSE IF isStale(entries[i], now)
    THEN [cache |-> Without(entries, i), value |-> Undefined]
  ELSE [cache |-> <<entries[i]>> \o Without(entries, i),
        value |-> entries[i].value]

\* LRUCache.set(key, value): the entry is written (over an entry of the same
\* key, whose age restarts), becomes the most recently used, and the cache
\* is trimmed to its capacity.
LRUCacheSet(entries, key, value, now) ==
  LET i == IndexOf(entries, key) IN
  IF i = 0 THEN trim(<<Entry(key, value, now)>> \o entries)
  ELSE trim(<<Entry(key, value, now)>> \o Without(entries, i))

(***************************************************************************)
(* Resolution pipeline.                                                    *)
(***************************************************************************)
\* The context of a request that has not been answered: no body, no
\* content type.
NoResponse == [body |-> Undefined, type |-> ""]

\* A Koa context: the path and method, ctx.request.body, ctx.request.query,
\* ctx.req.body and the response (ctx.body is ctx.response.body).
Ctx(path, method, body, query, reqBody) ==
  [path |-> path, method |-> method, body |-> body, query |-> query,
   reqBody |-> reqBody, response |-> NoResponse]

\* A route check that lets every path through.
shouldHandleAnyPath(path, pattern) == TRUE

\* shouldHandleByPath
shouldHandleByPath(path, pattern) == pattern = path

\* got || undefined
OrUndefined(got) ==
  [cache |-> got.cache,
   value |-> IF Truthy(got.value) THEN got.value ELSE Undefined]

\* getResponseFromCache: cache.get(key) || undefined
getResponseFromCache(entries, key, now) ==
  OrUndefined(LRUCacheGet(entries, key, now))

\* persistMap[persistHash]
MapLookup(persistMap, persistHash) ==
  IF StringOf(persistHash) \in DOMAIN persistMap
    THEN Str(persistMap[StringOf(persistHash)])
    ELSE Undefined

\* getQueryFromHash, the hit branch: ctx.response.body = data
ServeFromCache(ctx, data) == [ctx EXCEPT !.response.body = data]

\* getQueryFromHash, the miss branch:
\* ctx.request.body.query = persistMap[persistHash]
InjectQuery(ctx, persistMap, persistHash) ==
  [ctx EXCEPT !.body = SetProp(ctx.body, "query",
                               MapLookup(persistMap, persistHash))]

\* A write condition that forgets the content type.
ShouldCacheAnyType(persistHash, type) == Truthy(persistHash)

\* The condition under which cacheAfterExecutionGraphQL writes the cache.
ShouldCache(persistHash, type) ==
  Truthy(persistHash) /\ type = "application/json"

\* Caching the request body (ctx.request.body) instead of ctx.body.
RequestBodyToCache(ctx) == ctx.body

\* The value cacheAfterExecutionGraphQL writes: ctx.body.
BodyToCache(ctx) == ctx.response.body

\* Where a call of the middleware leaves a request: the context and the
\* cache as the call leaves them, where the request stands (pc), what was
\* thrown, what was parsed and computed, and the calls made, in order (log).
Step(pc, ctx, entries, thrown, log, persistHash, variables, requestHash, data) ==
  [pc |-> pc, ctx |-> ctx, cache |-> entries, thrown |-> thrown, log |-> log,
   persistHash |-> persistHash, variables |-> variables,
   requestHash |-> requestHash, data |-> data]

\* The hit branch without its `return`: the cached response is set, and the
\* call goes on to inject the query and call next.
AfterLookupNoReturn(ctx, persistMap, persistHash, variables, requestHash, looked) ==
  IF ~isObject(ctx.body)
    THEN Step("failed", ServeFromCache(ctx, looked.value), looked.cache,
              TypeError, <<"get">>, persistHash, variables, requestHash,
              looked.value)
  ELSE Step("awaiting",
            InjectQuery(IF Truthy(looked.value)
                          THEN ServeFromCache(ctx, looked.value) ELSE ctx,
                        persistMap, persistHash),
            looked.cache, NoError, <<"get", "inject", "next">>,
            persistHash, variables, requestHash, looked.value)

\* getQueryFromHash from the lookup's result on: serve the cached response,
\* or inject the query text and call next.
AfterLookup(ctx, persistMap, persistHash, variables, requestHash, looked) ==
  IF Truthy(looked.value)
    THEN Step("done", ServeFromCache(ctx, looked.value), looked.cache, NoError,
              <<"get">>, persistHash, variables, requestHash, looked.value)
  ELSE IF ~isObject(ctx.body)
    THEN Step("failed", ctx, looked.cache, TypeError, <<"get">>,
              persistHash, variables, requestHash, Undefined)
  ELSE Step("awaiting", InjectQuery(ctx, persistMap, persistHash), looked.cache,
            NoError, <<"get", "inject", "next">>,
            persistHash, variables, requestHash, Undefined)

\* getQueryFromHash from the fingerprint on.
AfterHash(ctx, persistMap, entries, now, persistHash, variables, hashed) ==
  IF ~hashed.ok
    THEN Step("failed", ctx, entries, hashed.err, <<>>,
              persistHash, variables, Undefined, Undefined)
    ELSE AfterLookup(ctx, persistMap, persistHash, variables, hashed.val,
                     getResponseFromCache(entries, hashed.val.s, now))

\* getQueryFromHash from the parsed request on.
AfterParse(ctx, persistMap, entries, now, parsed) ==
  IF ~parsed.ok
    THEN Step("failed", ctx, entries, parsed.err, <<>>,
              Undefined, Undefined, Undefined, Undefined)
    ELSE AfterHash(ctx, persistMap, entries, now,
                   GetProp(parsed.val, "persistHash"),
                   GetProp(parsed.val, "variables"),
                   generateRequestHash(GetProp(parsed.val, "persistHash"),
                                       GetProp(parsed.val, "variables")))

\* getQueryFromHash up to `await next()`.
getQueryFromHash(ctx, persistMap, entries, now) ==
  AfterParse(ctx, persistMap, entries, now, parseGraphQLRequest(ctx))

\* A populate step that keeps the entry the fingerprint already has.
cacheAfterExecutionGraphQLIfAbsent(ctx, persistHash, requestHash, entries, now) ==
  IF ShouldCache(persistHash, ctx.response.type)
       /\ ~LRUCacheHas(entries, requestHash.s, now)
    THEN [cache |-> LRUCacheSet(entries, requestHash.s, BodyToCache(ctx), now),
          log |-> <<"set">>]
    ELSE [cache |-> entries, log |-> <<>>]

\* A populate step that writes under the persisted-query id instead of the
\* fingerprint.
cacheAfterExecutionGraphQLById(ctx, persistHash, requestHash, entries, now) ==
  IF ShouldCache(persistHash, ctx.response.type)
    THEN [cache |-> LRUCacheSet(entries, StringOf(persistHash),
                                BodyToCache(ctx), now),
          log |-> <<"set">>]
    ELSE [cache |-> entries, log |-> <<>>]

\* cacheAfterExecutionGraphQL: [cache, log]
cacheAfterExecutionGraphQL(ctx, persistHash, requestHash, entries, now) ==
  IF ShouldCache(persistHash, ctx.response.type)
    THEN [cache |-> LRUCacheSet(entries, requestHash.s, BodyToCache(ctx), now),
          log |-> <<"set">>]
    ELSE [cache |-> entries, log |-> <<>>]

(***************************************************************************)
(* Configuration, requests and executor responses.                         *)
(***************************************************************************)
\* config.path
ConfigPath == "/graphql"

\* config.map: persisted-query id -> query text
ConfigMap == [h \in {"abc123", "def456"} |->
                IF h = "abc123" THEN "{ hello }" ELSE "{ bye }"]

VarsX1 == Obj(<<Prop("x", Num("1"))>>)
VarsX2 == Obj(<<Prop("x", Num("2"))>>)

Post(payload) == Ctx(ConfigPath, "POST", payload, Obj(<<>>), Undefined)
\* A GET behind koa-bodyparser: the parsed body is the empty object.
Get(params) == Ctx(ConfigPath, "GET", Obj(<<>>), params, Undefined)

PersistedPost == Post(Obj(<<Prop("id", Str("abc123"))>>))
PersistedPostVars ==
  Post(Obj(<<Prop("id", Str("abc123")), Prop("variables", VarsX1)>>))
PersistedPostVars2 ==
  Post(Obj(<<Prop("id", Str("abc123")), Prop("variables", VarsX2)>>))
PlainPost == Post(Obj(<<Prop("query", Str("{ mine }"))>>))
UndefinedIdPost == Post(Obj(<<Prop("id", Str("undefined"))>>))
EmptyIdPost == Post(Obj(<<Prop("id", Str(""))>>))
PersistedGet == Get(Obj(<<Prop("id", Str("abc123"))>>))
OffPathPost ==
  Ctx("/other", "POST", Obj(<<Prop("id", Str("abc123"))>>), Obj(<<>>), Undefined)

PutRequest ==
  Ctx(ConfigPath, "PUT", Obj(<<Prop("id", Str("abc123"))>>), Obj(<<>>), Undefined)

\* The requests of the pipeline environment.
PipelineInputs ==
  { PersistedPost, PersistedPostVars, PersistedPostVars2, PlainPost,
    UndefinedIdPost, EmptyIdPost, PersistedGet, OffPathPost, PutRequest }

\* The requests of the normalizer environment: every method, payload place
\* and payload shape the normalizer distinguishes.
NormalizerInputs ==
  PipelineInputs \cup
  { Ctx(ConfigPath, "DELETE", Undefined, Obj(<<>>), Undefined),
    Post(Obj(<<>>)),
    Post(Undefined),
    Get(Obj(<<>>)),
    Get(Undefined),
    \* koa-multer: the parsed body is at ctx.req.body
    Ctx(ConfigPath, "POST", Undefined, Obj(<<>>), Obj(<<Prop("id", Str("abc123"))>>)),
    Ctx(ConfigPath, "POST", Undefined, Obj(<<>>), Obj(<<>>)),
    Ctx(ConfigPath, "POST", Obj(<<>>), Obj(<<>>), Obj(<<Prop("id", Str("abc123"))>>)),
    \* a GET with no body parser in front
    Ctx(ConfigPath, "GET", Undefined, Obj(<<Prop("id", Str("abc123"))>>), Undefined),
    Ctx("/other", "PUT", Undefined, Obj(<<>>), Undefined),
    Post(Obj(<<Prop("id", Str("abc123")),
               Prop("query", Obj(<<Prop("kind", Str("Document"))>>))>>)),
    Post(Obj(<<Prop("id", Str("abc123")),
               Prop("query", Obj(<<Prop("kind", Str("Field"))>>))>>)),
    Post(Obj(<<Prop("query", Num("5"))>>)),
    Post(Obj(<<Prop("id", Str("abc123")), Prop("extensions", Str("{not json"))>>)),
    Post(Obj(<<Prop("id", Str("abc123")), Prop("extensions", Str("{\"version\":1}"))>>)),
    Get(Obj(<<Prop("id", Str("abc123")), Prop("variables", Str("{not json"))>>)),
    Get(Obj(<<Prop("id", Str("abc123")), Prop("variables", Str("{\"x\":1}"))>>)),
    Post(Obj(<<Prop("id", Str("abc123")), Prop("variables", CyclicObj)>>)),
    Post(Obj(<<Prop("id", Str("abc123")), Prop("variables", Num("7"))>>)),
    Post(Obj(<<Prop("id", Str("abc123")), Prop("variables", VarsX2)>>)),
    Post(Obj(<<Prop("id", Str("def456")), Prop("query", Str("{ mine }")),
               Prop("operationName", Str("Bye"))>>)),
    Post(Obj(<<Prop("id", Str("zzz999"))>>)) }

\* What the next middleware (the GraphQL layer) leaves in the response.
JsonWorld ==
  [body |-> Obj(<<Prop("data", Obj(<<Prop("hello", Str("world"))>>))>>),
   type |-> "application/json"]
JsonMoon ==
  [body |-> Obj(<<Prop("data", Obj(<<Prop("hello", Str("moon"))>>))>>),
   type |-> "application/json"]
JsonEmpty == [body |-> Str(""), type |-> "application/json"]
HtmlPage == [body |-> Str("<h1>Not Found</h1>"), type |-> "text/html"]
\* An execution that did not succeed: the GraphQL layer answers with an
\* error result, which is JSON as well.
JsonErrors ==
  [body |-> Obj(<<Prop("errors", Str("Cannot query field"))>>),
   type |-> "application/json"]

Outcomes == {JsonWorld, JsonMoon, JsonEmpty, HtmlPage, JsonErrors}

\* Requests in one run, and how far the clock runs.
NumRequests == 2
MaxClock == 2

Slots == 1..NumRequests

(***************************************************************************)
(* State.                                                                  *)
(***************************************************************************)
VARIABLES
  env,     \* the environment of this run (never changes): "pipeline" or
           \* "normalizer"
  cache,   \* the process-wide cache: its entries, most recently used first
  clock,   \* Date.now(), in ticks
  pc,      \* per request: idle, awaiting (next() pending), resumed, done, failed
  ctx,     \* per request: its Koa context
  thrown,  \* per request: the error its promise rejected with
  obs      \* per request: what the request did and saw (history only: no
           \* action reads it, except for the fingerprint and the id that
           \* getQueryFromHash keeps in its local variables across the await)

vars == <<env, cache, clock, pc, ctx, thrown, obs>>

\* An environment gives the requests that may arrive, how many of them, and
\* the responses the next middleware may produce.  The pipeline environment
\* runs concurrent requests; the normalizer environment runs one request
\* over every payload shape.
Inputs == IF env = "pipeline" THEN PipelineInputs ELSE NormalizerInputs
Requests == IF env = "pipeline" THEN NumRequests ELSE 1
Responses == IF env = "pipeline" THEN Outcomes ELSE {JsonWorld, HtmlPage}

NoObs ==
  [input |-> Ctx("", "", Undefined, Undefined, Undefined),
   handled |-> FALSE, persistHash |-> Undefined, variables |-> Undefined,
   requestHash |-> Undefined, held |-> Undefined, heldLive |-> FALSE,
   data |-> Undefined, sent |-> NoResponse, log |-> <<>>,
   at |-> 0, wroteBefore |-> {}, finishedBefore |-> {}, wroteAfter |-> {}]

Init ==
  /\ env \in {"pipeline", "normalizer"}
  /\ cache = <<>>
  /\ clock = 0
  /\ pc = [r \in Slots |-> "idle"]
  /\ ctx = [r \in Slots |-> Ctx("", "", Undefined, Undefined, Undefined)]
  /\ thrown = [r \in Slots |-> NoError]
  /\ obs = [r \in Slots |-> NoObs]

\* History: whether request r made the call ev, and where in its calls.
Called(r, ev) == \E i \in 1..Len(obs[r].log) : obs[r].log[i] = ev
Times(r, ev) == Cardinality({i \in 1..Len(obs[r].log) : obs[r].log[i] = ev})
Pos(r, ev) ==
  IF Called(r, ev) THEN CHOOSE i \in 1..Len(obs[r].log) : obs[r].log[i] = ev
  ELSE 0
\* The requests that have written the cache, and those that are over.
Wrote == {s \in Slots : Called(s, "set")}
Finished == {s \in Slots : pc[s] \in {"done", "failed"}}

\* conditionDo
conditionDo(condition, operation, elseOperation) ==
  IF condition THEN operation ELSE elseOperation

\* Calling next directly (the route does not match): the context and the
\* cache are passed on as they are.
CallNext(input, entries) ==
  Step("awaiting", input, entries, NoError, <<"next">>,
       Undefined, Undefined, Undefined, Undefined)

\* What the cache holds, live, under a request's fingerprint (no
\* fingerprint: nothing).  Only the history reads it.
Held(entries, requestHash, now) ==
  IF requestHash # Undefined /\ LRUCacheHas(entries, requestHash.s, now)
    THEN [live |-> TRUE, value |-> entries[IndexOf(entries, requestHash.s)].value]
    ELSE [live |-> FALSE, value |-> Undefined]

\* The state after the synchronous part of a call of the middleware.
Arrive(r, input, handled, res, held) ==
  /\ pc' = [pc EXCEPT ![r] = res.pc]
  /\ ctx' = [ctx EXCEPT ![r] = res.ctx]
  /\ cache' = res.cache
  /\ thrown' = [thrown EXCEPT ![r] = res.thrown]
  /\ obs' = [obs EXCEPT ![r] =
       [input |-> input, handled |-> handled,
        persistHash |-> res.persistHash, variables |-> res.variables,
        requestHash |-> res.requestHash,
        held |-> held.value, heldLive |-> held.live,
        data |-> res.data, sent |-> NoResponse, log |-> res.log,
        at |-> clock, wroteBefore |-> Wrote, finishedBefore |-> Finished,
        wroteAfter |-> {}]]

\* The call of the middleware on a context, as a result.
Handle(input, entries, now) ==
  conditionDo(shouldHandleByPath(input.path, ConfigPath),
              getQueryFromHash(input, ConfigMap, entries, now),
              CallNext(input, entries))

\* What Arrive records of a call's result.
Record(r, input, res) ==
  Arrive(r, input, shouldHandleByPath(input.path, ConfigPath), res,
         Held(cache, res.requestHash, clock))

\* persistCache: the middleware is called with a request.  Everything up to
\* the first await runs in one step.
persistCache(r) ==
  /\ pc[r] = "idle"
  /\ r <= Requests
  /\ IF r = 1 THEN TRUE ELSE pc[r - 1] # "idle"
  /\ \E input \in Inputs : Record(r, input, Handle(input, cache, clock))
  /\ UNCHANGED <<env, clock>>

\* The next middleware completes: it has set the response.
nextResolves(r) ==
  /\ pc[r] = "awaiting"
  /\ \E out \in Responses :
       /\ ctx' = [ctx EXCEPT ![r].response = out]
       /\ obs' = [obs EXCEPT ![r].log = Append(@, "resolved"), ![r].sent = out]
  /\ pc' = [pc EXCEPT ![r] = IF obs[r].handled THEN "resumed" ELSE "done"]
  /\ UNCHANGED <<env, cache, clock, thrown>>

\* A failure of next that is caught long enough to store the response under
\* the fingerprint before it is thrown again.
nextRejectsThenCaches(r) ==
  /\ pc[r] = "awaiting"
  /\ pc' = [pc EXCEPT ![r] = "failed"]
  /\ thrown' = [thrown EXCEPT ![r] = ExecutorError]
  /\ obs' = [obs EXCEPT ![r].log = Append(@, "rejected")]
  /\ cache' = IF obs[r].handled
               THEN LRUCacheSet(cache, obs[r].requestHash.s,
                                ctx[r].response.body, clock)
               ELSE cache
  /\ UNCHANGED <<env, clock, ctx>>

\* The next middleware fails: the await throws and the promise rejects.
nextRejects(r) ==
  /\ pc[r] = "awaiting"
  /\ pc' = [pc EXCEPT ![r] = "failed"]
  /\ thrown' = [thrown EXCEPT ![r] = ExecutorError]
  /\ obs' = [obs EXCEPT ![r].log = Append(@, "rejected")]
  /\ UNCHANGED <<env, cache, clock, ctx>>

\* The state after the part of getQueryFromHash that follows the await.
Resume(r, res) ==
  /\ cache' = res.cache
  /\ obs' = [obs EXCEPT ![r].log = @ \o res.log, ![r].wroteAfter = Wrote]
  /\ pc' = [pc EXCEPT ![r] = "done"]

\* getQueryFromHash after `await next()`.
resumeAfterNext(r) ==
  /\ pc[r] = "resumed"
  /\ Resume(r, cacheAfterExecutionGraphQL(ctx[r], obs[r].persistHash,
                                          obs[r].requestHash, cache, clock))
  /\ UNCHANGED <<env, clock, ctx, thrown>>

\* Time passes.
Tick ==
  /\ clock < MaxClock
  /\ clock' = clock + 1
  /\ UNCHANGED <<env, cache, pc, ctx, thrown, obs>>

Next ==
  \/ \E r \in Slots : persistCache(r)
  \/ \E r \in Slots : nextResolves(r)
  \/ \E r \in Slots : nextRejects(r)
  \/ \E r \in Slots : resumeAfterNext(r)
  \/ Tick

Spec == Init /\ [][Next]_vars

(***************************************************************************)
(* The cache on its own: any sequence of get, set and has calls, as any    *)
(* number of requests may make them, with time passing in between.         *)
(***************************************************************************)
\* The keys and values of the calls.
CacheKeys == {"k1", "k2", "k3", "k4"}
CacheValues == {JsonWorld.body, Str("")}

\* History of the cache runs: the last call (op, key, result), whether the
\* key had a live entry before it, where the request that made a get stands
\* after its lookup, the keys the call removed, and the keys in the order
\* of their last use (a set, or a get that found a live entry), most recent
\* first.
NoCall == [op |-> "none", key |-> "", result |-> Undefined, has |-> FALSE,
           lookup |-> "", removed |-> {}, order |-> <<>>]

KeysOf(entries) == {entries[i].key : i \in 1..Len(entries)}

\* The order of last use after key was used.
Used(order, key) ==
  <<key>> \o SelectSeq(order, LAMBDA k : k # key)

CacheInit ==
  /\ env = "cache"
  /\ cache = <<>>
  /\ clock = 0
  /\ pc = [r \in Slots |-> "idle"]
  /\ ctx = [r \in Slots |-> Ctx("", "", Undefined, Undefined, Undefined)]
  /\ thrown = [r \in Slots |-> NoError]
  /\ obs = NoCall

\* The state after a call that left the cache as `entries`.
AfterCall(op, key, result, has, lookup, entries, order) ==
  /\ cache' = entries
  /\ obs' = [op |-> op, key |-> key, result |-> result, has |-> has,
             lookup |-> lookup,
             removed |-> KeysOf(cache) \ KeysOf(entries), order |-> order]
  /\ UNCHANGED <<env, clock, pc, ctx, thrown>>

\* What a get leaves: the cache and the value of LRUCacheGet, the key
\* counted as used when a live entry was there, and where the lookup of a
\* persisted POST with this fingerprint goes from that value (done: served
\* from the cache; awaiting: next was called).
AfterGet(key, got, live) ==
  AfterCall("get", key, got.value, live,
            AfterLookup(PersistedPost, ConfigMap, Str("abc123"), Undefined,
                        Str(key), OrUndefined(got)).pc,
            got.cache, IF live THEN Used(obs.order, key) ELSE obs.order)

\* cache.get(key), as getResponseFromCache calls it
cacheGet ==
  /\ env = "cache"
  /\ \E key \in CacheKeys :
       AfterGet(key, LRUCacheGet(cache, key, clock),
                LRUCacheHas(cache, key, clock))

\* cache.set(key, value)
cacheSet ==
  /\ env = "cache"
  /\ \E key \in CacheKeys, value \in CacheValues :
       AfterCall("set", key, value, LRUCacheHas(cache, key, clock), "",
               LRUCacheSet(cache, key, value, clock), Used(obs.order, key))

\* cache.has(key)
cacheHas ==
  /\ env = "cache"
  /\ \E key \in CacheKeys :
       AfterCall("has", key, Undefined, LRUCacheHas(cache, key, clock), "",
               cache, obs.order)

CacheNext == cacheGet \/ cacheSet \/ cacheHas \/ Tick

CacheSpec == CacheInit /\ [][CacheNext]_vars

(***************************************************************************)
(* The fingerprint generator on its own: two computations, with the cache  *)
(* written and time passing before, between and after them.                *)
(***************************************************************************)
\* The arguments of the computations.
FingerprintIds == {Undefined, Str("abc123"), Str("def456"), Str("")}
FingerprintVariables ==
  { Undefined, VarsX1, VarsX2, Obj(<<>>), Num("7"), Str("x"),
    Obj(<<Prop("x", Num("1")), Prop("y", Undefined)>>), CyclicObj }

\* A computation: its arguments as they are after the call, and its outcome.
NoFingerprint ==
  [called |-> FALSE, queryHashId |-> Undefined, queryVariables |-> Undefined,
   out |-> Return(Undefined)]
Fingerprint(queryHashId, queryVariables) ==
  [called |-> TRUE, queryHashId |-> queryHashId,
   queryVariables |-> queryVariables,
   out |-> generateRequestHash(queryHashId, queryVariables)]

FingerprintInit ==
  /\ env = "fingerprint"
  /\ cache = <<>>
  /\ clock = 0
  /\ pc = [r \in Slots |-> "idle"]
  /\ ctx = [r \in Slots |-> Ctx("", "", Undefined, Undefined, Undefined)]
  /\ thrown = [r \in Slots |-> NoError]
  /\ obs = [first |-> NoFingerprint, second |-> NoFingerprint]

\* generateRequestHash is called a first time.
fingerprintFirst ==
  /\ env = "fingerprint"
  /\ ~obs.first.called
  /\ \E id \in FingerprintIds, variables \in FingerprintVariables :
       obs' = [obs EXCEPT !.first = Fingerprint(id, variables)]
  /\ UNCHANGED <<env, cache, clock, pc, ctx, thrown>>

\* generateRequestHash is called again.
fingerprintSecond ==
  /\ env = "fingerprint"
  /\ obs.first.called
  /\ \E id \in FingerprintIds, variables \in FingerprintVariables :
       obs' = [obs EXCEPT !.second = Fingerprint(id, variables)]
  /\ UNCHANGED <<env, cache, clock, pc, ctx, thrown>>

\* Another request writes the cache.
otherRequestWrites ==
  /\ env = "fingerprint"
  /\ \E value \in CacheValues :
       cache' = LRUCacheSet(cache, sha256("abc123"), value, clock)
  /\ UNCHANGED <<env, clock, pc, ctx, thrown, obs>>

FingerprintNext ==
  fingerprintFirst \/ fingerprintSecond \/ otherRequestWrites \/ Tick

FingerprintSpec == FingerprintInit /\ [][FingerprintNext]_vars

(***************************************************************************)
(* Properties.                                                             *)
(***************************************************************************)
\* The payload of request r, as the normalizer reads it from the context the
\* request arrived with.
Payload(r) == parseQueryAndMethod(obs[r].input).query

Started(r) == pc[r] # "idle"

\* Request r was handled on the configured path and got past the normalizer
\* and the fingerprint.
LookedUp(r) == Started(r) /\ obs[r].handled /\ obs[r].requestHash # Undefined

\* The request parts of the context are those the request arrived with.
RequestUntouched(r) ==
  /\ ctx[r].path = obs[r].input.path
  /\ ctx[r].method = obs[r].input.method
  /\ ctx[r].body = obs[r].input.body
  /\ ctx[r].query = obs[r].input.query
  /\ ctx[r].reqBody = obs[r].input.reqBody

\* C1: a cache hit short-circuits the request.  When the lookup of a request
\* on the configured path finds a value under its fingerprint (the cache
\* holds a live, truthy value there; the lookup returns a value), the response
\* body is exactly that cached value, next is never called, the request is
\* not modified and the request writes nothing to the cache.
C1_HitShortCircuits ==
  \A r \in Slots :
    (LookedUp(r) /\ (obs[r].data # Undefined
                       \/ (obs[r].heldLive /\ Truthy(obs[r].held))))
    => /\ pc[r] = "done"
       /\ obs[r].heldLive
       /\ obs[r].data = obs[r].held
       /\ ctx[r].response.body = obs[r].held
       /\ ~Called(r, "next")
       /\ ~Called(r, "inject")
       /\ ~Called(r, "set")
       /\ RequestUntouched(r)

\* A request was served the body that an earlier request had cached.
C1_Witness ==
  \E r \in Slots :
    /\ pc[r] = "done"
    /\ obs[r].data = JsonWorld.body
    /\ ctx[r].response.body = JsonWorld.body
    /\ obs[r].log = <<"get">>

\* C5: routing bypass.  For a request whose path is not the configured path
\* next is called exactly once, the pipeline modifies neither the request
\* nor the response (the response is what the next middleware made of it),
\* and the cache is neither read nor written: no step of the request
\* changes it.
C5_BypassState ==
  \A r \in Slots :
    (Started(r) /\ obs[r].input.path # ConfigPath)
    => /\ Times(r, "next") = 1
       /\ ~Called(r, "get")
       /\ ~Called(r, "set")
       /\ ~Called(r, "inject")
       /\ RequestUntouched(r)
       /\ ctx[r].response = obs[r].sent
       /\ pc[r] # "resumed"
       /\ thrown[r] \in {NoError, ExecutorError}

C5_BypassStep ==
  \A r \in Slots :
    (pc'[r] # pc[r] /\ obs'[r].input.path # ConfigPath) => cache' = cache

\* C5: the routing bypass holds in every state of an off-path request, and
\* no step of an off-path request changes the cache.
C5_RoutingBypass == [](C5_BypassState) /\ [][C5_BypassStep]_vars

\* An off-path request has been through next while the cache held an entry.
C5_Witness ==
  \E r \in Slots :
    /\ obs[r].input.path # ConfigPath
    /\ pc[r] = "done"
    /\ ctx[r].response = JsonWorld
    /\ cache # <<>>

\* The persisted-query id of request r: the `id` field of its payload.
IdOf(r) == GetProp(Payload(r), "id")

\* Request r missed the cache, next completed, and the request is over.
Executed(r) ==
  /\ pc[r] = "done"
  /\ obs[r].handled
  /\ obs[r].data = Undefined
  /\ Called(r, "resolved")

\* C2: write-through then hit.  After a request with persistHash h and
\* variables v went through a miss and next completed with a JSON response of
\* body b, a later request with the same (h, v), with no eviction, expiry
\* or overwrite of the key in between (no tick and no write of another
\* request since), is a hit: next is not called and its body is b.
C2_WriteThroughThenHit ==
  \A r1, r2 \in Slots :
    ( /\ r1 # r2
      /\ Executed(r1)
      /\ HasProp(Payload(r1), "id")
      /\ ctx[r1].response.type = "application/json"
      /\ Started(r2)
      /\ obs[r2].handled
      /\ r1 \in obs[r2].finishedBefore
      /\ obs[r2].at = obs[r1].at
      /\ obs[r2].wroteBefore \subseteq {r1}
      /\ HasProp(Payload(r2), "id")
      /\ obs[r2].persistHash = obs[r1].persistHash
      /\ obs[r2].variables = obs[r1].variables )
    => /\ pc[r2] = "done"
       /\ ~Called(r2, "next")
       /\ obs[r2].data = ctx[r1].response.body
       /\ ctx[r2].response.body = ctx[r1].response.body

\* C3: a request whose payload has no `id` skips caching entirely: the cache
\* is neither read at the lookup nor written after execution, the request
\* is never answered from the cache, and next is called.
C3_NoIdSkipsCache ==
  \A r \in Slots :
    ( /\ Started(r)
      /\ obs[r].handled
      /\ thrown[r].name # "HttpQueryError"
      /\ ~HasProp(Payload(r), "id") )
    => /\ ~Called(r, "get")
       /\ ~Called(r, "set")
       /\ obs[r].data = Undefined
       /\ Called(r, "next")

\* C4 as stated: after next completes, (fingerprint, body) is written if and
\* only if the payload has a persistHash (an `id` field) and the response
\* type is application/json.
C4_PopulateIffPresentAndJson ==
  \A r \in Slots :
    (pc[r] = "done" /\ obs[r].handled /\ Called(r, "resolved"))
    => (Called(r, "set")
          <=> (HasProp(Payload(r), "id")
                 /\ ctx[r].response.type = "application/json"))

\* C4, amended: after next completes, (fingerprint, body) is written if and
\* only if the persistHash is present and truthy (not the empty string) and
\* the response type is application/json; otherwise the step after next
\* leaves the cache unchanged.
C4_PopulateState ==
  \A r \in Slots :
    (pc[r] = "done" /\ obs[r].handled /\ Called(r, "resolved"))
    => (Called(r, "set")
          <=> (Truthy(IdOf(r)) /\ ctx[r].response.type = "application/json"))

C4_PopulateStep ==
  \A r \in Slots :
    (pc[r] = "resumed" /\ pc'[r] = "done")
    => IF Truthy(IdOf(r)) /\ ctx[r].response.type = "application/json"
         THEN /\ cache' # <<>>
              /\ cache'[1] = Entry(obs[r].requestHash.s, ctx[r].response.body, clock)
              /\ \A i \in 2..Len(cache') :
                   /\ cache'[i].key # obs[r].requestHash.s
                   /\ \E k \in 1..Len(cache) : cache[k] = cache'[i]
         ELSE cache' = cache

\* C4, amended: the write happens exactly under a truthy persistHash and a
\* JSON response type, and the step after next writes exactly that entry or
\* leaves the cache unchanged.
C4_PopulateIffTruthyAndJson == [](C4_PopulateState) /\ [][C4_PopulateStep]_vars

\* One persisted request has cached its JSON response, another one got an
\* HTML page and cached nothing.
C4_Witness ==
  \E r1, r2 \in Slots :
    /\ Executed(r1) /\ Called(r1, "set") /\ ctx[r1].response = JsonWorld
    /\ Executed(r2) /\ ~Called(r2, "set") /\ ctx[r2].response = HtmlPage
    /\ Truthy(IdOf(r2))
    /\ Len(cache) = 1 /\ cache[1].value = JsonWorld.body

\* C6: per-request ordering.  In every run of a request that reaches next,
\* the lookup comes strictly before the call of next, and a cache write of
\* the request comes strictly after next has completed and stores the
\* response body as next left it, whatever other requests do in between.
C6_OrderState ==
  \A r \in Slots :
    (obs[r].handled /\ Called(r, "next"))
    => /\ Times(r, "get") = 1 /\ Times(r, "next") = 1
       /\ Pos(r, "get") < Pos(r, "next")
       /\ Called(r, "set")
            => /\ Times(r, "set") = 1
               /\ Called(r, "resolved")
               /\ Pos(r, "next") < Pos(r, "resolved")
               /\ Pos(r, "resolved") < Pos(r, "set")
       /\ pc[r] = "awaiting" => ~Called(r, "resolved") /\ ~Called(r, "set")

C6_OrderStep ==
  \A r \in Slots :
    (Len(obs'[r].log) > Len(obs[r].log)
       /\ obs'[r].log[Len(obs'[r].log)] = "set")
    => /\ pc[r] = "resumed"
       /\ Called(r, "resolved")
       /\ cache'[1].key = obs[r].requestHash.s
       /\ cache'[1].value = obs[r].sent.body

\* C6: lookup, then next, then the write of the body next left, in every
\* state and at every step, under every interleaving of the requests.
C6_PerRequestOrdering == [](C6_OrderState) /\ [][C6_OrderStep]_vars

\* A request wrote the cache after a second request arrived, ran and wrote
\* while the first was waiting for next.
C6_Witness ==
  \E r1, r2 \in Slots :
    /\ r1 # r2
    /\ pc[r1] = "done" /\ Called(r1, "set")
    /\ pc[r2] = "done" /\ Called(r2, "set")
    /\ r1 \notin obs[r2].finishedBefore
    /\ r2 \notin obs[r1].finishedBefore
    /\ r2 \in obs[r1].wroteAfter
    /\ obs[r1].sent # obs[r2].sent

\* Two requests with the same fingerprint, each looked up before the other
\* wrote, with nothing servable cached under the fingerprint at either
\* lookup, on contexts that have a parsed body.
C7_Concurrent(r1, r2) ==
  /\ r1 # r2
  /\ LookedUp(r1) /\ LookedUp(r2)
  /\ obs[r1].requestHash = obs[r2].requestHash
  /\ r1 \notin obs[r2].wroteBefore
  /\ r2 \notin obs[r1].wroteBefore
  /\ ~(obs[r1].heldLive /\ Truthy(obs[r1].held))
  /\ ~(obs[r2].heldLive /\ Truthy(obs[r2].held))
  /\ isObject(obs[r1].input.body) /\ isObject(obs[r2].input.body)

\* Both call next; each one that completes with a JSON response writes; and
\* once both have written, the entry under the fingerprint (unless a third
\* request wrote it later) holds the body of the one that wrote last.
C7_BothExecuteLastWins(r1, r2) ==
  LET last == IF r1 \in obs[r2].wroteAfter THEN r2 ELSE r1
      key == obs[r1].requestHash.s
  IN
  /\ Times(r1, "next") = 1 /\ Times(r2, "next") = 1
  /\ \A r \in {r1, r2} :
       (pc[r] = "done" /\ ctx[r].response.type = "application/json")
       => Called(r, "set")
  /\ ( /\ Called(r1, "set") /\ Called(r2, "set")
       /\ IndexOf(cache, key) # 0
       /\ \A r3 \in Slots \ {r1, r2} :
            (Called(r3, "set") /\ obs[r3].requestHash = obs[r1].requestHash)
            => r3 \in obs[last].wroteAfter )
     => cache[IndexOf(cache, key)].value = ctx[last].response.body

\* C7 as stated: no single-flight.  Two requests with the same fingerprint
\* (of a payload that has a persistHash) that both look up before either
\* populates both call next and both write, and the last write wins.
C7_NoSingleFlight ==
  \A r1, r2 \in Slots :
    ( /\ C7_Concurrent(r1, r2)
      /\ HasProp(Payload(r1), "id") /\ HasProp(Payload(r2), "id") )
    => C7_BothExecuteLastWins(r1, r2)

\* C7, amended: the same, for requests whose persistHash is truthy (not the
\* empty string).
C7_NoSingleFlightTruthyId ==
  \A r1, r2 \in Slots :
    (C7_Concurrent(r1, r2) /\ Truthy(IdOf(r1)) /\ Truthy(IdOf(r2)))
    => C7_BothExecuteLastWins(r1, r2)

\* Two concurrent requests with one fingerprint both ran next and wrote
\* different bodies; the cache holds the later one.
C7_Witness ==
  \E r1, r2 \in Slots :
    /\ C7_Concurrent(r1, r2)
    /\ Truthy(IdOf(r1)) /\ Truthy(IdOf(r2))
    /\ Called(r1, "set") /\ Called(r2, "set")
    /\ r1 \in obs[r2].wroteAfter
    /\ ctx[r1].response = JsonWorld /\ ctx[r2].response = JsonMoon
    /\ Len(cache) = 1 /\ cache[1].value = JsonMoon.body

\* C8: query injection on miss.  Whenever next is called for a request that
\* carries persistHash h and missed the cache, the `query` of the payload
\* the executor reads (the parsed body of a POST, the query-string mapping
\* of a GET) is ConfigMap[h], and it was injected before next was called.
C8_QueryInjectedOnMiss ==
  \A r \in Slots :
    (obs[r].handled /\ Called(r, "next") /\ HasProp(Payload(r), "id"))
    => /\ GetProp(parseQueryAndMethod(ctx[r]).query, "query")
            = MapLookup(ConfigMap, IdOf(r))
       /\ 0 < Pos(r, "inject")
       /\ Pos(r, "inject") < Pos(r, "next")

\* The ways a request on the configured path fails before the lookup, read
\* off the context it arrived with.
BadMethod(c) == c.method \notin {"GET", "POST"}
Missing(payload) == ~Truthy(payload) \/ KeyCount(payload) = 0
MissingPayload(c) ==
  ~BadMethod(c) /\ Missing(parseQueryAndMethod(c).query)
Readable(c) == ~BadMethod(c) /\ ~MissingPayload(c)
IsJsonText(text) == \E v \in JsonValues : JsonText(v) = text
InvalidJsonField(c, field) ==
  /\ Readable(c)
  /\ TypeOf(GetProp(parseQueryAndMethod(c).query, field)) = "string"
  /\ ~IsJsonText(GetProp(parseQueryAndMethod(c).query, field).s)
NonStringQuery(c) ==
  /\ Readable(c)
  /\ Truthy(GetProp(parseQueryAndMethod(c).query, "query"))
  /\ TypeOf(GetProp(parseQueryAndMethod(c).query, "query")) # "string"
Unserializable(c) ==
  /\ Readable(c)
  /\ IsCyclic(GetProp(parseQueryAndMethod(c).query, "variables"))
FailsBeforeLookup(c) ==
  \/ BadMethod(c) \/ MissingPayload(c) \/ NonStringQuery(c)
  \/ InvalidJsonField(c, "extensions") \/ InvalidJsonField(c, "variables")
  \/ Unserializable(c)

\* C9: a failure before the lookup leaves everything untouched.  When the
\* normalization or the fingerprint of a request on the configured path
\* fails (bad method, missing payload, non-string query, invalid extensions
\* or variables JSON, unserializable variables), the request is rejected
\* with the HttpQueryError that was thrown, next is never called, the
\* context is as it arrived and the cache is neither read nor written; and
\* no other request ends with an HttpQueryError.
C9_FailureState ==
  \A r \in Slots :
    (Started(r) /\ obs[r].handled)
    => /\ FailsBeforeLookup(obs[r].input)
            => /\ pc[r] = "failed"
               /\ thrown[r].name = "HttpQueryError"
               /\ thrown[r].statusCode \in {400, 405, 500}
               /\ ~thrown[r].isGraphQLError
               /\ obs[r].log = <<>>
               /\ ctx[r] = obs[r].input
       /\ thrown[r].name = "HttpQueryError"
            => FailsBeforeLookup(obs[r].input) /\ obs[r].log = <<>>

C9_FailureStep ==
  \A r \in Slots :
    (pc[r] = "idle" /\ thrown'[r].name = "HttpQueryError") => cache' = cache

\* C9: a request that fails before the lookup is rejected with the error
\* thrown and has called nothing, in every state, and the step in which it
\* fails leaves the cache unchanged.
C9_FailureLeavesAllUntouched == [](C9_FailureState) /\ [][C9_FailureStep]_vars

\* A request with variables that cannot be serialized was rejected with the
\* fingerprint generator's error 400, having called nothing.
C9_Witness ==
  \E r \in Slots :
    /\ pc[r] = "failed"
    /\ Unserializable(obs[r].input)
    /\ thrown[r] = HttpQueryError(400,
                     "[persist-query-middleware] Variables are invalid JSON",
                     FALSE, NoHeaders)
    /\ obs[r].log = <<>>

\* The messages of the three method-validation errors.
ValidationMessages ==
  { "POST body missing. Did you forget use body-parser middleware?",
    "GET query missing.",
    "Apollo Server supports only GET/POST requests." }

\* C10: method validation outcomes.  On the configured path a GET whose
\* query-string mapping is absent or empty fails with status 400, a POST
\* whose parsed body (ctx.request.body, else ctx.req.body) is absent or
\* empty fails with status 500, any other method fails with status 405 and
\* the header Allow: GET, POST, and a GET or POST with a non-empty payload
\* passes method validation.
C10_MethodValidation ==
  \A r \in Slots :
    (Started(r) /\ obs[r].handled)
    => LET c == obs[r].input
           payload == IF c.method = "POST"
                        THEN (IF Truthy(c.body) THEN c.body ELSE c.reqBody)
                        ELSE c.query
       IN
       /\ (c.method = "GET" /\ Missing(payload))
            => /\ pc[r] = "failed"
               /\ thrown[r].name = "HttpQueryError"
               /\ thrown[r].statusCode = 400
               /\ thrown[r].message = "GET query missing."
       /\ (c.method = "POST" /\ Missing(payload))
            => /\ pc[r] = "failed"
               /\ thrown[r].name = "HttpQueryError"
               /\ thrown[r].statusCode = 500
       /\ c.method \notin {"GET", "POST"}
            => /\ pc[r] = "failed"
               /\ thrown[r].name = "HttpQueryError"
               /\ thrown[r].statusCode = 405
               /\ thrown[r].headers = <<Prop("Allow", "GET, POST")>>
       /\ (c.method \in {"GET", "POST"} /\ ~Missing(payload))
            => thrown[r].message \notin ValidationMessages

\* A POST with an empty parsed body was rejected with status 500.
C10_Witness ==
  \E r \in Slots :
    /\ obs[r].input = Post(Obj(<<>>))
    /\ pc[r] = "failed"
    /\ thrown[r].statusCode = 500

\* The place of a key in the order of last use, and the least recently used
\* of the keys the cache holds.
PlaceOf(order, key) == CHOOSE i \in 1..Len(order) : order[i] = key
LeastRecentlyUsed(entries, order) ==
  CHOOSE k \in KeysOf(entries) :
    \A j \in KeysOf(entries) : PlaceOf(order, j) <= PlaceOf(order, k)

\* The entries of the keys in `keys` are the same in both caches.
SameEntries(before, after, keys) ==
  \A k \in keys :
    /\ IndexOf(before, k) # 0 /\ IndexOf(after, k) # 0
    /\ before[IndexOf(before, k)] = after[IndexOf(after, k)]

\* A step of the cache runs that is the call op.
CallStep(op) == clock' = clock /\ obs'.op = op

\* C11, in every state: the cache holds at most CacheMax entries, one per
\* key, and every key it holds has been used.
C11_BoundState ==
  /\ Len(cache) <= CacheMax
  /\ Cardinality(KeysOf(cache)) = Len(cache)
  /\ \A k \in KeysOf(cache) : \E i \in 1..Len(obs.order) : obs.order[i] = k

\* C11, at every call: a set of a new key into a full cache removes exactly
\* the least recently used entry (the key whose last set or successful get
\* is the oldest) and leaves the other entries as they were and the cache
\* full; a set into a cache that is not full, or of a key the cache holds,
\* removes nothing; has changes nothing; get removes at most its own key.
C11_EvictStep ==
  /\ CallStep("set") =>
       IF obs'.key \notin KeysOf(cache) /\ Len(cache) = CacheMax
         THEN /\ KeysOf(cache') =
                   (KeysOf(cache) \ {LeastRecentlyUsed(cache, obs.order)})
                     \cup {obs'.key}
              /\ Len(cache') = CacheMax
              /\ SameEntries(cache, cache',
                     KeysOf(cache) \ {LeastRecentlyUsed(cache, obs.order)})
         ELSE /\ KeysOf(cache') = KeysOf(cache) \cup {obs'.key}
              /\ SameEntries(cache, cache', KeysOf(cache) \ {obs'.key})
  /\ CallStep("has") => cache' = cache
  /\ CallStep("get") =>
       /\ KeysOf(cache) \ {obs'.key} \subseteq KeysOf(cache')
       /\ KeysOf(cache') \subseteq KeysOf(cache)
       /\ SameEntries(cache, cache', KeysOf(cache'))

\* C11: cache capacity bound with LRU eviction.  After any sequence of get,
\* set and has calls the cache holds at most CacheMax entries, and a set of
\* a new key into a full cache removes exactly the least recently used
\* entry (recency refreshed by get and set), so that inserting CacheMax + 1
\* distinct keys leaves exactly CacheMax entries.
C11_CapacityBoundLRU == [](C11_BoundState) /\ [][C11_EvictStep]_vars

\* CacheMax + 1 distinct keys have been set, the first of them was read
\* again before the last set, and that set removed another key: the cache
\* is full and still holds the first key.
C11_Witness ==
  /\ obs.op = "set"
  /\ Len(obs.order) = CacheMax + 1
  /\ Cardinality(obs.removed) = 1
  /\ Len(cache) = CacheMax
  /\ obs.key = "k4"
  /\ "k1" \in KeysOf(cache)
  /\ cache[IndexOf(cache, "k1")].now = 0
  /\ \A k \in obs.removed : k # "k1" /\ PlaceOf(obs.order, k) = Len(obs.order)

\* The key of the call has an entry that was written more than CacheMaxAge
\* ago.
Expired(key) ==
  /\ IndexOf(cache, key) # 0
  /\ clock > cache[IndexOf(cache, key)].now + CacheMaxAge

\* C12: TTL expiry.  An entry written at time t (a set stamps the entry
\* with the time of the call; a get never changes the stamp) is reported
\* absent by get and by has at any time later than t + CacheMaxAge, so that
\* the lookup of a request with that fingerprint is a miss and the request
\* calls next again.
C12_ExpiryStep ==
  /\ CallStep("set") =>
       /\ IndexOf(cache', obs'.key) # 0
       /\ cache'[IndexOf(cache', obs'.key)] = Entry(obs'.key, obs'.result, clock)
  /\ CallStep("get") =>
       /\ SameEntries(cache, cache', KeysOf(cache'))
       /\ Expired(obs'.key) =>
            /\ obs'.result = Undefined
            /\ ~obs'.has
            /\ obs'.lookup = "awaiting"
  /\ CallStep("has") =>
       /\ cache' = cache
       /\ Expired(obs'.key) => ~obs'.has

C12_TTLExpiry == [][C12_ExpiryStep]_vars

\* A get found the entry of its key, written at time 0, expired: it
\* reported it absent, removed it, and the request went on to next.
C12_Witness ==
  /\ obs.op = "get"
  /\ obs.removed = {obs.key}
  /\ obs.result = Undefined
  /\ obs.lookup = "awaiting"
  /\ clock = CacheMaxAge + 1
  /\ obs.order = <<obs.key>>

\* Request r writes the cache in this step.
Writes(r) ==
  /\ pc[r] = "resumed" /\ pc'[r] = "done"
  /\ Len(obs'[r].log) > Len(obs[r].log)
  /\ obs'[r].log[Len(obs'[r].log)] = "set"

\* The execution of request r succeeded: next completed with a result that
\* is not an error result.
Succeeded(r) ==
  /\ Called(r, "resolved")
  /\ ~HasProp(obs[r].sent.body, "errors")

\* C13, in every state: a request that wrote the cache had missed the cache
\* and its execution had succeeded.
C13_CreatedState ==
  \A r \in Slots :
    Called(r, "set") => (obs[r].data = Undefined /\ Succeeded(r))

\* C13, at every step: an entry that is new or changed is under the
\* fingerprint of a request that writes in this step, and a key leaves the
\* cache only by eviction (a write into a full cache) or by expiry (its
\* entry is older than CacheMaxAge).
C13_ChangeStep ==
  /\ \A i \in 1..Len(cache') :
       \/ \E k \in 1..Len(cache) : cache[k] = cache'[i]
       \/ \E r \in Slots : Writes(r) /\ cache'[i].key = obs[r].requestHash.s
  /\ \A k \in 1..Len(cache) :
       (\A i \in 1..Len(cache') : cache'[i].key # cache[k].key)
       => \/ (\E r \in Slots : Writes(r)) /\ Len(cache) = CacheMax
          \/ clock > cache[k].now + CacheMaxAge

\* C13: cache entry lifecycle.  An entry is created only on a cache miss
\* after a successful execution (never for a request whose executor failed
\* or answered with an error result), and an existing entry changes only by
\* eviction or expiry or by a write under the identical fingerprint.
C13_EntryLifecycle == [](C13_CreatedState) /\ [][C13_ChangeStep]_vars

\* C14, in every state: a request has made at most one set; one that made
\* it was handled on the configured path, had computed a fingerprint and
\* missed; a request that was served from the cache, that bypassed the
\* pipeline or that failed has made none.
C14_OneWriteState ==
  \A r \in Slots :
    /\ Times(r, "set") <= 1
    /\ Called(r, "set")
         => /\ obs[r].handled
            /\ obs[r].requestHash # Undefined
            /\ obs[r].data = Undefined
            /\ pc[r] = "done"
    /\ (Started(r) /\ (obs[r].data # Undefined \/ ~obs[r].handled
                          \/ pc[r] = "failed"))
         => ~Called(r, "set")

\* C14, at every step: the fingerprint of a request stays the one of its
\* lookup, a write puts its entry under that fingerprint and changes no
\* other entry, and a step that is no write adds or changes no entry.
C14_OneWriteStep ==
  /\ \A r \in Slots :
       Started(r) => obs'[r].requestHash = obs[r].requestHash
  /\ \A r \in Slots :
       Writes(r) => /\ cache'[1].key = obs[r].requestHash.s
                    /\ \A i \in 2..Len(cache') :
                         \E k \in 1..Len(cache) : cache[k] = cache'[i]
  /\ (\A r \in Slots : ~Writes(r))
       => \A i \in 1..Len(cache') :
            \E k \in 1..Len(cache) : cache[k] = cache'[i]

\* C14: at most one cache write per response.  Over its whole lifetime a
\* request makes at most one cache set, under the fingerprint it computed
\* at the lookup, and none on the hit, bypass and error paths.
C14_AtMostOneWrite == [](C14_OneWriteState) /\ [][C14_OneWriteStep]_vars

\* One request has written its one entry, a later one was served from it
\* and wrote nothing.
C14_Witness ==
  \E r1, r2 \in Slots :
    /\ Times(r1, "set") = 1
    /\ pc[r2] = "done" /\ obs[r2].data # Undefined /\ ~Called(r2, "set")
    /\ obs[r2].requestHash = obs[r1].requestHash
    /\ Len(cache) = 1 /\ cache[1].key = obs[r1].requestHash.s

\* C15, in every state: two computations with the same persistHash and with
\* variables of the same JSON serialization have the same outcome, whatever
\* the cache held at either; and variables that are absent or not an object
\* contribute the empty string: the key is the digest of the id alone.
C15_SameKeyState ==
  /\ (obs.first.called /\ obs.second.called
        /\ obs.first.queryHashId = obs.second.queryHashId
        /\ JsonStringify(obs.first.queryVariables)
             = JsonStringify(obs.second.queryVariables))
     => obs.first.out = obs.second.out
  /\ \A c \in {obs.first, obs.second} :
       (c.called /\ (c.queryVariables = Undefined
                       \/ TypeOf(c.queryVariables) # "object"))
       => c.out = Return(Str(sha256(StringOf(c.queryHashId))))

\* C15, at every step: a computation changes neither the cache nor its
\* arguments, and the outcome of the first computation stays what it was.
C15_PureStep ==
  /\ obs' # obs => /\ cache' = cache
                   /\ obs'.first.called /\ ~obs.first.called
                        => obs'.second = obs.second
                   /\ obs.first.called => obs'.first = obs.first
  /\ \A c \in {obs'.first, obs'.second} :
       c.called => \/ ~c.out.ok
                   \/ c.out.val = Str(sha256(StringOf(c.queryHashId) \o
                                     (IF c.queryVariables = Undefined
                                           \/ TypeOf(c.queryVariables) # "object"
                                        THEN ""
                                        ELSE JsonText(c.queryVariables))))

\* C15: fingerprint determinism and purity.  Two computations with the same
\* persistHash and variables of the same JSON serialization return the
\* same key regardless of the cache and of what ran in between, a
\* computation changes neither the cache nor the request, and variables
\* that are absent or not an object contribute the empty string.
C15_FingerprintDeterminism == [](C15_SameKeyState) /\ [][C15_PureStep]_vars

\* Two computations, with the cache written meanwhile, on variables that
\* are different objects of one serialization, gave one key.
C15_Witness ==
  /\ obs.first.called /\ obs.second.called
  /\ obs.first.queryHashId = Str("abc123")
  /\ obs.first.queryVariables = VarsX1
  /\ obs.second.queryVariables
       = Obj(<<Prop("x", Num("1")), Prop("y", Undefined)>>)
  /\ obs.first.out = obs.second.out
  /\ obs.first.out = Return(Str(sha256("abc123{\"x\":1}")))
  /\ cache # <<>>

\* Variables that are a non-empty mapping.
NonEmptyMapping(v) == isObject(v) /\ KeyCount(v) > 0

\* C16: variables participate in the cache key.  For one persistHash, a
\* request whose variables are a non-empty mapping has a fingerprint
\* different from that of a request with no variables, and from that of a
\* request whose variables serialize to another JSON string; so it misses
\* the cache and calls next even when the response of the other request is
\* what the cache holds.
C16_VariablesInKey ==
  \A r1, r2 \in Slots :
    ( /\ r1 # r2
      /\ LookedUp(r1) /\ LookedUp(r2)
      /\ IdOf(r1) = IdOf(r2)
      /\ NonEmptyMapping(obs[r2].variables)
      /\ \/ obs[r1].variables = Undefined
         \/ JsonStringify(obs[r1].variables) # JsonStringify(obs[r2].variables) )
    => /\ obs[r1].requestHash # obs[r2].requestHash
       /\ obs[r2].wroteBefore = {r1}
            => /\ ~obs[r2].heldLive
               /\ obs[r2].data = Undefined
               /\ pc[r2] # "done" \/ Called(r2, "next")

\* The response of a request without variables was cached and live when a
\* request with the same id and variables {x: 1} arrived: that one missed
\* and ran next.
C16_Witness ==
  \E r1, r2 \in Slots :
    /\ obs[r1].input = PersistedPost
    /\ obs[r2].input = PersistedPostVars
    /\ obs[r2].wroteBefore = {r1}
    /\ obs[r2].at = obs[r1].at
    /\ ctx[r1].response = JsonWorld
    /\ obs[r2].data = Undefined
    /\ Called(r2, "resolved")

\* C17: cache-hit soundness.  Whenever a request is served from the cache,
\* the body it receives was produced by an earlier execution of a request
\* with the same persistHash and the same variables; and no two requests
\* that differ in persistHash (present against absent included) or in
\* variables share a cache entry: their fingerprints differ.
C17_HitSoundness ==
  /\ \A r2 \in Slots :
       (LookedUp(r2) /\ obs[r2].data # Undefined)
       => \E r1 \in obs[r2].wroteBefore :
            /\ Executed(r1)
            /\ obs[r1].sent.body = obs[r2].data
            /\ IdOf(r1) = IdOf(r2)
            /\ obs[r1].variables = obs[r2].variables
  /\ \A r1, r2 \in Slots :
       (LookedUp(r1) /\ LookedUp(r2)
          /\ (IdOf(r1) # IdOf(r2) \/ obs[r1].variables # obs[r2].variables))
       => obs[r1].requestHash # obs[r2].requestHash

\* Request r is on the configured path and carries its own query text and
\* no persistHash.
OwnQuery(r) ==
  /\ Started(r)
  /\ obs[r].handled
  /\ isObject(Payload(r))
  /\ ~HasProp(Payload(r), "id")
  /\ GetProp(Payload(r), "query").t = "string"

\* C18: non-persisted requests pass through intact.  For a request on the
\* configured path that carries its own query text and no persistHash, the
\* query the executor observes (the request the pipeline hands to next) is
\* the query text the client sent; the pipeline rewrites `query` only for
\* requests sent as persisted queries.
C18_PlainQueryIntact ==
  \A r \in Slots :
    (OwnQuery(r) /\ Called(r, "next"))
    => /\ GetProp(ctx[r].body, "query") = GetProp(obs[r].input.body, "query")
       /\ ctx[r].query = obs[r].input.query

\* The entries of the cache that have not expired.
LiveEntries(entries, now) ==
  {entries[i] : i \in {k \in 1..Len(entries) : ~isStale(entries[k], now)}}

\* Request r missed the cache and its next handler failed.
ExecutorFailed(r) ==
  /\ obs[r].handled
  /\ LookedUp(r)
  /\ obs[r].data = Undefined
  /\ Called(r, "rejected")

\* C19, in every state: a request whose next handler failed is rejected with
\* the error next threw, it has made no cache write, and only such a request
\* ends with that error; and a later identical request, with no write under
\* the fingerprint since the failed one arrived, is again a miss.
C19_FailureState ==
  /\ \A r \in Slots :
       /\ Called(r, "rejected")
            => /\ pc[r] = "failed"
               /\ thrown[r] = ExecutorError
               /\ ~Called(r, "set")
               /\ ~Called(r, "resolved")
       /\ thrown[r] = ExecutorError => Called(r, "rejected")
  /\ \A r1, r2 \in Slots :
       ( /\ r1 # r2
         /\ ExecutorFailed(r1)
         /\ r1 \in obs[r2].finishedBefore
         /\ LookedUp(r2)
         /\ obs[r2].input = obs[r1].input
         /\ \A s \in obs[r2].wroteBefore \ obs[r1].wroteBefore :
              obs[s].requestHash # obs[r1].requestHash )
       => /\ obs[r2].data = Undefined
          /\ pc[r2] # "done" \/ Called(r2, "next")

\* C19, at every step: the step in which next fails for a request changes
\* nothing in the cache and raises the error of next, and the lookup of a
\* request that misses leaves the unexpired entries as they were.
C19_FailureStep ==
  \A r \in Slots :
    /\ (pc[r] = "awaiting" /\ pc'[r] = "failed")
         => /\ cache' = cache
            /\ thrown'[r] = ExecutorError
            /\ ctx'[r] = ctx[r]
    /\ (pc[r] = "idle" /\ pc'[r] = "awaiting")
         => LiveEntries(cache', clock) = LiveEntries(cache, clock)

\* C19: executor failure never populates the cache.  When next fails for a
\* request that missed the cache, the failure is what the caller gets, the
\* request writes nothing, its steps leave the unexpired cache contents as
\* they were, and a later identical request is again a miss.
C19_ExecutorFailureNeverPopulates ==
  [](C19_FailureState) /\ [][C19_FailureStep]_vars

\* A persisted query missed the cache and its next handler failed; the same
\* request arrived again afterwards, missed too and was handed to next.
C19_Witness ==
  \E r1, r2 \in Slots :
    /\ r1 # r2
    /\ ExecutorFailed(r1)
    /\ obs[r1].input = PersistedPost
    /\ thrown[r1] = ExecutorError
    /\ r1 \in obs[r2].finishedBefore
    /\ obs[r2].input = PersistedPost
    /\ obs[r2].data = Undefined
    /\ Called(r2, "next")
    /\ \A i \in 1..Len(cache) : cache[i].key # obs[r1].requestHash.s

=============================================================================
